---- MODULE Spec2Model ----
(***************************************************************************)
(* Model of the datasource store module created by createDatasource        *)
(* (src/store/data-sources/data-sources.ts): the Vuex state, its           *)
(* mutations, its actions, and the two AbortController closures.  Every    *)
(* action runs to its first `await` in one step; every adapter call that   *)
(* is outstanding is an element of inits, repos or saves and settles in a  *)
(* later step, resolved or rejected by the adapter.  An action that throws *)
(* before it changes anything is a step that changes no variable.          *)
(***************************************************************************)
EXTENDS Integers, Sequences, FiniteSets, TLC

\* ------------------------------------------------------------------ bounds
\* record ids the adapter knows: 1..MaxId
MaxId == 2
\* calls of init, reposition and repositionById (the actions that construct
\* AbortControllers) made in one run; one prev may follow them, since prev
\* acts only at a pointer > 0, which takes an init and a repositionById to
\* reach
MaxCalls == 2

\* ------------------------------------------------------------ record values
\* JavaScript null as a field value (add() clears every field to it)
NullVal == 0
\* record.id of a record that has no id field
Undefined == -1

\* a record reference that is null / undefined
NULL == [null |-> NullVal]
\* the object {}
EmptyRec == [f \in {} |-> NullVal]

Ids == 1..MaxId
\* values a caller passes to update(field, value)
Values == Ids
\* field names a caller passes to update; the adapter's records have the
\* field id alone (activeRecordFields and collectionRecordFields name it), so
\* "name" is in no record
FieldNames == {"id", "name"}

\* the record the adapter holds for an id
AdapterRecord(id) == [id |-> id]

\* batches getFirst can return: records with distinct ids, in the adapter's
\* order (ascending id)
Batches ==
  {b \in UNION {[1..n -> {AdapterRecord(i) : i \in Ids}] : n \in 0..MaxId} :
     \A i, j \in 1..Len(b) : i < j => b[i].id < b[j].id}

\* { ...record }
Spread(record) == IF record = NULL THEN EmptyRec ELSE record

\* record.id
IdOf(record) == IF "id" \in DOMAIN record THEN record.id ELSE Undefined

\* records.findIndex((x) => x.id === id), 0-based, -1 when there is none
FindIndex(recs, id) ==
  IF \E i \in 1..Len(recs) : recs[i].id = id
  THEN (CHOOSE i \in 1..Len(recs) :
          /\ recs[i].id = id
          /\ \A j \in 1..(i - 1) : recs[j].id # id) - 1
  ELSE -1

\* an AbortController is known by the call that constructs it (the k-th of
\* the run, made by action by) and the closure it is assigned to
BatchCtl(k) == [call |-> k, by |-> "init", kind |-> "batch"]
FetchCtl(k, by) == [call |-> k, by |-> by, kind |-> "fetch"]
\* the closures' null
NoCtl == [call |-> 0, by |-> "none", kind |-> "none"]

\* ------------------------------------------------------------------- state
VARIABLES
  activeRecord, originalRecord, records, updateMode, pointer, locked,
  fetchAbortController, batchAbortController,
  aborted, issued,
  inits, repos, saves,
  last

store == <<activeRecord, originalRecord, records, updateMode, pointer, locked>>
ctls == <<fetchAbortController, batchAbortController, aborted, issued>>
pending == <<inits, repos, saves>>
vars == <<store, ctls, pending, last>>

\* the module's state object
St ==
  [activeRecord |-> activeRecord, originalRecord |-> originalRecord,
   records |-> records, updateMode |-> updateMode, pointer |-> pointer,
   locked |-> locked]

SetState(s) ==
  /\ activeRecord' = s.activeRecord
  /\ originalRecord' = s.originalRecord
  /\ records' = s.records
  /\ updateMode' = s.updateMode
  /\ pointer' = s.pointer
  /\ locked' = s.locked

\* a mutation returns the state it leaves and the error it throws, if any
Ok(s) == [st |-> s, err |-> "none"]
Throw(s, e) == [st |-> s, err |-> e]

\* ---------------------------------------------------------------- mutations
setCollection(s, recs) == Ok([s EXCEPT !.records = recs])

setActiveRecord(s, record, preserveOriginal) ==
  IF s.locked THEN Throw(s, "LockedError")
  ELSE LET s1 == [s EXCEPT !.activeRecord = record,
                           !.originalRecord =
                              IF preserveOriginal THEN @ ELSE Spread(record)]
       IN  \* record.id is read once per element of state.records
           IF record = NULL /\ Len(s1.records) > 0
           THEN Throw(s1, "TypeError")
           ELSE Ok([s1 EXCEPT !.pointer = FindIndex(s1.records, IdOf(record))])

setUpdateMode(s, mode) ==
  IF s.locked THEN Throw(s, "LockedError")
  ELSE Ok([s EXCEPT !.updateMode = mode])

\* update without the hasOwnProperty test of lines 141-143: the assignment of
\* line 145 then adds the field to the record
update_addsField(s, field, value) ==
  IF s.locked THEN Throw(s, "LockedError")
  ELSE IF s.updateMode = "B" THEN Throw(s, "WrongModeError")
  ELSE IF s.activeRecord = NULL THEN Throw(s, "NoActiveRecordError")
  ELSE Ok([s EXCEPT !.activeRecord =
                      [f \in DOMAIN @ \cup {field} |->
                         IF f = field THEN value ELSE @[f]]])

\* update as it would act if originalRecord were the object activeRecord is
\* (line 127 without the spread): the assignment of line 145 shows in both
update_writesBoth(s, field, value) ==
  IF s.locked THEN Throw(s, "LockedError")
  ELSE IF s.updateMode = "B" THEN Throw(s, "WrongModeError")
  ELSE IF s.activeRecord = NULL THEN Throw(s, "NoActiveRecordError")
  ELSE IF field \notin DOMAIN s.activeRecord THEN Throw(s, "UnknownFieldError")
  ELSE Ok([s EXCEPT !.activeRecord = [@ EXCEPT ![field] = value],
                    !.originalRecord =
                       IF field \in DOMAIN @ THEN [@ EXCEPT ![field] = value]
                       ELSE @])

update(s, field, value) ==
  IF s.locked THEN Throw(s, "LockedError")
  ELSE IF s.updateMode = "B" THEN Throw(s, "WrongModeError")
  ELSE IF s.activeRecord = NULL THEN Throw(s, "NoActiveRecordError")
  ELSE IF field \notin DOMAIN s.activeRecord THEN Throw(s, "UnknownFieldError")
  ELSE Ok([s EXCEPT !.activeRecord = [@ EXCEPT ![field] = value]])

lock(s) ==
  IF s.locked THEN Throw(s, "LockedError")
  ELSE Ok([s EXCEPT !.locked = TRUE])

unlock(s) ==
  IF s.locked THEN Throw(s, "NotUnlockedError")
  ELSE Ok([s EXCEPT !.locked = FALSE])

\* --------------------------------------------------------------- observers
\* the last step that changed something: the action it belongs to, how that
\* action stands after it ("pending": suspended in an adapter call), and how
\* the adapter call that settled in the step ended ("none": no call settled)
Settled(op, out, got) == last' = [op |-> op, out |-> out, got |-> got]
Did(op, out) == Settled(op, out, "none")

\* what an action that ended with r returns or throws
Out(r, okOut) == IF r.err = "none" THEN okOut ELSE r.err

\* an action that ran its commits in sequence and ended with r
Finish(op, r, okOut) ==
  IF r.err # "none" /\ r.st = St
  THEN UNCHANGED vars
  ELSE /\ SetState(r.st)
       /\ Did(op, Out(r, okOut))
       /\ UNCHANGED <<ctls, pending>>

Init ==
  /\ activeRecord = NULL
  /\ originalRecord = NULL
  /\ records = <<>>
  /\ updateMode = "B"
  /\ pointer = -1
  /\ locked = FALSE
  /\ fetchAbortController = NoCtl
  /\ batchAbortController = NoCtl
  /\ aborted = {}
  /\ issued = 0
  /\ inits = {}
  /\ repos = {}
  /\ saves = {}
  /\ last = [op |-> "createDatasource", out |-> "ok", got |-> "none"]

\* ------------------------------------------------------------ init (action)
\* the controllers something still refers to: the closures and the calls
\* that are suspended
LiveCtls ==
  {fetchAbortController, batchAbortController}
    \cup {c.batch : c \in inits} \cup {c.fetch : c \in inits}
    \cup {c.fetch : c \in repos}

\* abort() on the controllers cs the closures hold; a controller nothing
\* refers to any more is forgotten
Abort(cs) == aborted' = (aborted \cup (cs \ {NoCtl})) \cap LiveCtls'


\* init without the guard of line 158
initGuard_none(s) == "none"

\* line 158
initGuard(s) == IF s.locked THEN "LockedError" ELSE "none"

\* lines 159-174: from the guard to the suspension in adapter.getFirst.  The
\* call's second controller is constructed after getFirst resolves.
StartInit(forSave) ==
  /\ batchAbortController' = BatchCtl(issued + 1)
  /\ issued' = issued + 1
  /\ inits' = inits \cup {[pc |-> "getFirst", batch |-> BatchCtl(issued + 1),
                           fetch |-> FetchCtl(issued + 1, "init"), records |-> <<>>,
                           forSave |-> forSave]}
  /\ UNCHANGED <<fetchAbortController, repos>>
  /\ Abort({batchAbortController, fetchAbortController})

init ==
  IF initGuard(St) # "none"
  THEN UNCHANGED vars
  ELSE /\ issued < MaxCalls
       /\ StartInit(FALSE)
       /\ Did("init", "pending")
       /\ UNCHANGED <<store, saves>>

\* the action whose promise settles when call c of init settles
InitOp(c) == IF c.forSave THEN "save" ELSE "init"

\* lines 194-198
InitCommit(s, recs, record, fetchAborted) ==
  LET r1 == setCollection(s, recs)
      r2 == IF fetchAborted THEN Ok(r1.st)
            ELSE setActiveRecord(r1.st, record, FALSE)
  IN  IF r2.err # "none" THEN r2 ELSE setUpdateMode(r2.st, "B")

\* adapter.getFirst of call c settles (lines 168-192)
init_getFirst(c) ==
  /\ c \in inits
  /\ c.pc = "getFirst"
  /\ UNCHANGED <<issued, repos, saves>>
  /\ \/ \* the adapter rejects
        /\ inits' = inits \ {c}
        /\ Settled(InitOp(c), "AdapterError", "rejected")
        /\ UNCHANGED <<store, fetchAbortController, batchAbortController>>
     \/ \E b \in Batches :
          IF c.batch \in aborted
          THEN /\ inits' = inits \ {c}
               /\ Settled(InitOp(c), "ok", "resolved")
               /\ UNCHANGED <<store, fetchAbortController, batchAbortController>>
          ELSE /\ batchAbortController' = NoCtl
               /\ fetchAbortController' = c.fetch
               /\ IF Len(b) > 0
                  THEN /\ inits' = (inits \ {c}) \cup
                                     {[c EXCEPT !.pc = "getRecord", !.records = b]}
                       /\ Settled(InitOp(c), "pending", "resolved")
                       /\ UNCHANGED store
                  ELSE LET r == InitCommit(St, b, NULL, FALSE)
                       IN  /\ inits' = inits \ {c}
                           /\ SetState(r.st)
                           /\ Settled(InitOp(c), Out(r, "ok"), "resolved")
  /\ Abort({})

\* what adapter.getRecord(id) can resolve to
GetRecordResults(id) == {AdapterRecord(id), NULL}

\* adapter.getRecord of call c of init settles (lines 184-198)
init_getRecord(c) ==
  /\ c \in inits
  /\ c.pc = "getRecord"
  /\ inits' = inits \ {c}
  /\ UNCHANGED <<fetchAbortController, batchAbortController, issued, repos, saves>>
  /\ Abort({})
  /\ \/ /\ Settled(InitOp(c), "AdapterError", "rejected")
        /\ UNCHANGED store
     \/ \E firstRecord \in GetRecordResults(c.records[1].id) :
          LET r == InitCommit(St, c.records, firstRecord, c.fetch \in aborted)
          IN  /\ SetState(r.st)
              /\ Settled(InitOp(c), Out(r, "ok"), "resolved")

\* ------------------------------------------------------- record positioning
\* lines 211-212
repositionByIdGuard(s) ==
  IF s.locked THEN "LockedError"
  ELSE IF s.updateMode # "B" THEN "WrongModeError"
  ELSE "none"

\* lines 202-206
repositionGuard(s, pos) ==
  IF s.locked THEN "LockedError"
  ELSE IF s.updateMode # "B" THEN "WrongModeError"
  ELSE IF pos < 0 \/ pos >= Len(s.records) THEN "NotFoundError"
  ELSE "none"

\* lines 214-219: from the guards to the suspension in adapter.getRecord
StartRepositionById(id) ==
  /\ fetchAbortController' = FetchCtl(issued + 1, "repositionById")
  /\ issued' = issued + 1
  /\ repos' = repos \cup
                {[fetch |-> FetchCtl(issued + 1, "repositionById"), id |-> id]}
  /\ UNCHANGED <<store, batchAbortController, inits, saves>>
  /\ Abort({fetchAbortController})

\* dispatch('repositionById', id) by action op, which may make the call
\* while fewer than budget calls were made
DispatchRepositionById(op, id, budget) ==
  IF repositionByIdGuard(St) # "none"
  THEN UNCHANGED vars
  ELSE /\ issued < budget
       /\ StartRepositionById(id)
       /\ Did(op, "pending")

repositionById(id) == DispatchRepositionById("repositionById", id, MaxCalls)

\* lines 221-225: what repositionById does with the record getRecord
\* resolved to, and what it returns
RepositionByIdSettled(s, newRecord, currentAborted) ==
  IF ~currentAborted
  THEN LET r == setActiveRecord(s, newRecord, FALSE)
       IN  [st |-> r.st, out |-> Out(r, "true")]
  ELSE [st |-> s, out |-> "false"]

\* adapter.getRecord of call c of repositionById settles (lines 219-225)
repositionById_getRecord(c) ==
  /\ c \in repos
  /\ repos' = repos \ {c}
  /\ UNCHANGED <<fetchAbortController, batchAbortController, issued, inits, saves>>
  /\ Abort({})
  /\ \/ /\ Settled("repositionById", "AdapterError", "rejected")
        /\ UNCHANGED store
     \/ \E newRecord \in GetRecordResults(c.id) :
          LET r == RepositionByIdSettled(St, newRecord,
                                         fetchAbortController \in aborted)
          IN  /\ SetState(r.st)
              /\ Settled("repositionById", r.out, "resolved")

\* dispatch('reposition', pos) by action op
DispatchReposition(op, pos, budget) ==
  IF repositionGuard(St, pos) # "none"
  THEN UNCHANGED vars
  ELSE DispatchRepositionById(op, records[pos + 1].id, budget)

reposition(pos) == DispatchReposition("reposition", pos, MaxCalls)

\* prev() with the test of line 228 admitting pointer 0
prevTargets_fromZero(s) == IF s.pointer >= 0 THEN {s.pointer - 1} ELSE {}

\* line 228: the position prev() repositions to; none when it does nothing
prevTargets(s) == IF s.pointer > 0 THEN {s.pointer - 1} ELSE {}

\* line 233: the position next() repositions to; none when it does nothing
nextTargets(s) ==
  IF s.pointer + 1 < Len(s.records) THEN {s.pointer + 1} ELSE {}

prev ==
  IF prevTargets(St) = {} THEN UNCHANGED vars
  ELSE \E pos \in prevTargets(St) : DispatchReposition("prev", pos, MaxCalls + 1)

next ==
  IF nextTargets(St) = {} THEN UNCHANGED vars
  ELSE \E pos \in nextTargets(St) : DispatchReposition("next", pos, MaxCalls)

\* --------------------------------------------------------- state transitions
\* edit() without the mode test of line 241
editR_anyMode(s) ==
  IF s.locked THEN Throw(s, "LockedError") ELSE setUpdateMode(s, "U")

\* each action below as the state it leaves and the error it throws
editR(s) ==
  IF s.locked THEN Throw(s, "LockedError")
  ELSE IF s.updateMode # "B" THEN Throw(s, "WrongModeError")
  ELSE \* line 242 builds the error and does not throw it
       setUpdateMode(s, "U")

\* the record add() builds: the keys of activeRecord, every value null
Cleared(record) ==
  IF record = NULL THEN EmptyRec ELSE [f \in DOMAIN record |-> NullVal]

\* add() as the specification describes it: the cleared record becomes
\* activeRecord and pointer keeps its stored value
addR_keepsPointer(s) ==
  IF s.locked THEN Throw(s, "LockedError")
  ELSE IF s.updateMode # "B" THEN Throw(s, "WrongModeError")
  ELSE Ok([s EXCEPT !.updateMode = "A",
                    !.activeRecord = Cleared(s.activeRecord)])

\* add() with preserveOriginal left out of its commit at line 258
addR_replacesOriginal(s) ==
  IF s.locked THEN Throw(s, "LockedError")
  ELSE IF s.updateMode # "B" THEN Throw(s, "WrongModeError")
  ELSE LET r == setUpdateMode(s, "A")
       IN  IF r.err # "none" THEN r
           ELSE setActiveRecord(r.st, Cleared(s.activeRecord), FALSE)

addR(s) ==
  IF s.locked THEN Throw(s, "LockedError")
  ELSE IF s.updateMode # "B" THEN Throw(s, "WrongModeError")
  ELSE LET r == setUpdateMode(s, "A")
       IN  IF r.err # "none" THEN r
           ELSE setActiveRecord(r.st, Cleared(s.activeRecord), TRUE)

copyR(s) ==
  IF s.locked THEN Throw(s, "LockedError")
  ELSE IF s.updateMode # "B" THEN Throw(s, "WrongModeError")
  ELSE LET r == setUpdateMode(s, "C")
       IN  IF r.err # "none" THEN r
           ELSE setActiveRecord(r.st, Spread(s.activeRecord), TRUE)

cancelR(s) ==
  IF s.locked THEN Throw(s, "LockedError")
  ELSE IF s.updateMode = "B" THEN Throw(s, "WrongModeError")
  ELSE LET r == setActiveRecord(s, s.originalRecord, FALSE)
       IN  IF r.err # "none" THEN r ELSE setUpdateMode(r.st, "B")

edit == Finish("edit", editR(St), "ok")
add == Finish("add", addR(St), "ok")
copy == Finish("copy", copyR(St), "ok")
cancel == Finish("cancel", cancelR(St), "ok")

\* commit('update', {field, value}) by the presentation
commit_update(field, value) == Finish("update", update(St, field, value), "ok")

\* ---------------------------------------------------------------------- save
\* the guards of save without the mode test of line 275
saveGuard_anyMode(s) ==
  IF s.locked THEN "LockedError"
  ELSE IF s.activeRecord = NULL THEN "NoActiveRecordError"
  ELSE "none"

\* lines 274-278
saveGuard(s) ==
  IF s.locked THEN "LockedError"
  ELSE IF s.updateMode = "B" THEN "WrongModeError"
  ELSE IF s.activeRecord = NULL THEN "NoActiveRecordError"
  ELSE "none"

\* the finally block of save (line 298) after the try block ended with
\* error tryErr ("none": it completed): the state left and the error thrown
Finally(s, tryErr) ==
  LET r == unlock(s)
  IN  IF r.err # "none" THEN r ELSE Throw(r.st, tryErr)

\* lines 282-296 when the try block ends before any adapter call: the error
\* it ends with ("none": it reaches the adapter call)
saveTry(r) ==
  IF r.err # "none" THEN r.err
  ELSE IF r.st.updateMode = "U" /\ r.st.originalRecord = NULL
  THEN "MissingOriginalError"
  ELSE "none"

\* lines 274-296: from the guards to the suspension in the adapter call
save ==
  IF saveGuard(St) # "none"
  THEN UNCHANGED vars
  ELSE LET r == lock(St)
           f == Finally(r.st, saveTry(r))
       IN  /\ UNCHANGED <<ctls, inits, repos>>
           /\ IF saveTry(r) # "none"
              THEN /\ SetState(f.st)
                   /\ Did("save", f.err)
                   /\ UNCHANGED saves
              ELSE /\ SetState(r.st)
                   /\ saves' = saves \cup
                        {[call |-> IF updateMode = "U" THEN "update" ELSE "create",
                          record |-> activeRecord, pre |-> St]}
                   /\ Did("save", "pending")

\* what adapter.create(record) / adapter.update(record, original) can resolve
\* to: the persisted record, with an id the adapter assigns when it has none
Persisted(record) ==
  IF IdOf(record) \in Ids
  THEN {record}
  ELSE {[f \in DOMAIN record \cup {"id"} |-> IF f = "id" THEN i ELSE record[f]] :
          i \in Ids}

\* lines 297-301: the finally block and the commit after the adapter call
\* settled; newRecord is NULL when the adapter rejected
SaveCommit(s, newRecord) ==
  LET f == Finally(s, IF newRecord = NULL THEN "AdapterError" ELSE "none")
  IN  IF f.err # "none" THEN f ELSE setActiveRecord(f.st, newRecord, FALSE)

\* the adapter call of call c of save settles (lines 285-302)
SaveSettled(c, newRecord) ==
  LET r == SaveCommit(St, newRecord)
      got == IF newRecord = NULL THEN "rejected" ELSE "resolved"
  IN  /\ saves' = saves \ {c}
      /\ SetState(r.st)
      /\ IF r.err # "none"
         THEN /\ Settled("save", r.err, got)
              /\ UNCHANGED <<ctls, inits, repos>>
         ELSE \* dispatch('init'), line 302
              IF initGuard(r.st) # "none"
              THEN /\ Settled("save", initGuard(r.st), got)
                   /\ UNCHANGED <<ctls, inits, repos>>
              ELSE /\ issued < MaxCalls
                   /\ StartInit(TRUE)
                   /\ Settled("save", "pending", got)

save_settle(c) ==
  /\ c \in saves
  /\ \/ SaveSettled(c, NULL)
     \/ \E newRecord \in Persisted(c.record) : SaveSettled(c, newRecord)

\* ------------------------------------------------------------ specification
Next ==
  \/ init
  \/ \E c \in inits : init_getFirst(c)
  \/ \E c \in inits : init_getRecord(c)
  \/ \E id \in Ids : repositionById(id)
  \/ \E c \in repos : repositionById_getRecord(c)
  \/ \E pos \in -1..MaxId : reposition(pos)
  \/ prev
  \/ next
  \/ edit
  \/ add
  \/ copy
  \/ cancel
  \/ \E field \in FieldNames, value \in Values : commit_update(field, value)
  \/ save
  \/ \E c \in saves : save_settle(c)

Spec == Init /\ [][Next]_vars

\* ------------------------------------------------------------------ claims
\* call c of repositionById settles in this step
ReposSettles(c) == c \in repos /\ c \notin repos'

\* call c of init settles in this step (it does not merely move on from
\* getFirst to getRecord)
InitSettles(c) == c \in inits /\ \A d \in inits' : d.batch # c.batch

\* call c of save settles in this step
SaveSettles(c) == c \in saves /\ c \notin saves'

\* a repositionById made after call c holds the closure: c is superseded
SupersededRepos(c) ==
  /\ fetchAbortController.by = "repositionById"
  /\ fetchAbortController.call > c.fetch.call

\* an init made after call c of init is known to the state
SupersededInit(c) ==
  \/ batchAbortController.call > c.batch.call
  \/ fetchAbortController.by = "init" /\ fetchAbortController.call > c.batch.call
  \/ \E d \in inits : d.batch.call > c.batch.call

\* C1: when repositionById(A) is superseded by a later repositionById(B)
\* before A's getRecord settles, the step in which A's call settles changes
\* no state field and A returns false (or throws the adapter's error, when
\* the adapter honours the cancellation), whichever call settles first; and
\* the call that holds the closure, when it commits a record, leaves that
\* record, with the id it asked for, as activeRecord.
C1_SupersededRepositionDiscarded ==
  [][\A c \in repos :
       /\ (ReposSettles(c) /\ SupersededRepos(c))
            => /\ UNCHANGED store
               /\ last'.out \in {"false", "AdapterError"}
       /\ (ReposSettles(c) /\ c.fetch = fetchAbortController
             /\ last'.out = "true" /\ activeRecord' # NULL)
            => IdOf(activeRecord') = c.id]_vars

\* C2: locked is true only while the adapter call of a save is outstanding:
\* once save has settled, on success or on failure, locked is false.
C2_LockedOnlyWhileSaving == locked => saves # {}

\* C3: when the adapter's create/update call of a save resolves, the step
\* releases the lock, commits the returned record as activeRecord and
\* originalRecord and dispatches init; when that init settles without an
\* error, updateMode is Browse.
C3_SaveSuccessCommits ==
  [][/\ \A c \in saves :
          (SaveSettles(c) /\ last'.got = "resolved")
            => /\ locked' = FALSE
               /\ activeRecord' \in Persisted(c.record)
               /\ originalRecord' = activeRecord'
               /\ \E i \in inits' : i.forSave /\ i.pc = "getFirst"
     /\ \A i \in inits :
          (InitSettles(i) /\ i.forSave /\ last'.out = "ok" /\ ~SupersededInit(i))
            => /\ updateMode' = "B"
               /\ records' = i.records]_vars

\* C4: when the adapter's create/update call of a save rejects, save throws
\* the adapter's error, and updateMode, activeRecord, originalRecord, records
\* and pointer are what they were when save was invoked.
C4_SaveFailureRestores ==
  [][\A c \in saves :
       (SaveSettles(c) /\ last'.got = "rejected")
         => /\ last'.out = "AdapterError"
            /\ updateMode' = c.pre.updateMode
            /\ activeRecord' = c.pre.activeRecord
            /\ originalRecord' = c.pre.originalRecord
            /\ records' = c.pre.records
            /\ pointer' = c.pre.pointer]_vars

\* C5: a call of init that a later init has superseded never changes
\* records when it settles, also when it is superseded while its getRecord
\* is pending; an init that is not superseded and settles without an error
\* leaves its own batch as records.
C5_SupersededInitDiscarded ==
  [][\A c \in inits :
       /\ (InitSettles(c) /\ SupersededInit(c)) => records' = records
       /\ (InitSettles(c) /\ c.pc = "getRecord" /\ ~SupersededInit(c)
             /\ last'.out = "ok")
            => records' = c.records]_vars

\* C6: a step taken while locked is true and that leaves it true changes
\* none of records, activeRecord, originalRecord, pointer and updateMode.
C6_LockedFreezesState ==
  [][(locked /\ locked')
       => UNCHANGED <<records, activeRecord, originalRecord, pointer, updateMode>>]_vars

\* C7: pointer is the index in records of the record whose id is
\* activeRecord.id, and -1 when activeRecord is absent or its id is the id
\* of no record in records.
C7_PointerIsIndexOfActive ==
  pointer = IF activeRecord = NULL THEN -1
            ELSE FindIndex(records, IdOf(activeRecord))

\* C8: a step from a state whose updateMode is Update, Add or Copy to a
\* state whose updateMode is not Browse leaves pointer unchanged.
C8_PointerFixedOutsideBrowse ==
  [][(updateMode # "B" /\ updateMode' # "B") => pointer' = pointer]_vars

\* C9: edit, add, copy and update(field, value) leave originalRecord as it
\* is, and a cancel in Update, Add or Copy mode leaves updateMode Browse and
\* activeRecord equal to that originalRecord, and starts no adapter call.
C9_CancelRestoresOriginal ==
  [][/\ last'.op \in {"edit", "add", "copy", "update"}
          => originalRecord' = originalRecord
     /\ (last'.op = "cancel" /\ ~locked /\ updateMode # "B")
          => /\ updateMode' = "B"
             /\ activeRecord' = originalRecord
             /\ UNCHANGED pending]_vars

\* C10: edit in Browse mode, unlocked, with originalRecord absent throws and
\* leaves updateMode Browse; with originalRecord present it sets updateMode
\* to Update and leaves activeRecord and pointer unchanged.
C10_EditNeedsOriginal ==
  [][(last'.op = "edit" /\ ~locked /\ updateMode = "B")
       => IF originalRecord = NULL
          THEN last'.out # "ok" /\ updateMode' = "B"
          ELSE /\ updateMode' = "U"
               /\ UNCHANGED <<activeRecord, pointer>>]_vars

\* C11 (as stated): add() leaves the stored value of pointer as it was.
C11_AddKeepsPointer ==
  [][(last'.op = "add" /\ updateMode = "B" /\ ~locked)
       => pointer' = pointer]_vars

\* C11 (as the code has it): add() in Browse mode, unlocked, commits the
\* cleared record through setActiveRecord, which recomputes pointer: the
\* cleared record's id is null (or it has none), no record of records has
\* that id, and pointer is -1 after add(), whatever it was before.
C11_AddResetsPointer ==
  [][(last'.op = "add" /\ updateMode = "B" /\ ~locked)
       => pointer' = -1]_vars

\* add() has acted on a session whose selected record (kept as
\* originalRecord) is at an index >= 0 of records
C11_AddActedAtIndex ==
  /\ last.op = "add"
  /\ last.out = "ok"
  /\ originalRecord # NULL
  /\ FindIndex(records, IdOf(originalRecord)) >= 0
  /\ pointer = -1

\* C12: add() in Browse mode, unlocked, does not throw; it sets updateMode
\* to Add, makes activeRecord a record with the field names of the previous
\* activeRecord and every value null (no fields when there was none), and
\* leaves originalRecord as it was.
C12_AddClearsRecord ==
  [][(updateMode = "B" /\ ~locked)
       => /\ addR(St).err = "none"
          /\ last'.op = "add"
               => /\ last'.out = "ok"
                  /\ updateMode' = "A"
                  /\ activeRecord' # NULL
                  /\ DOMAIN activeRecord' =
                       (IF activeRecord = NULL THEN {} ELSE DOMAIN activeRecord)
                  /\ \A f \in DOMAIN activeRecord' : activeRecord'[f] = NullVal
                  /\ originalRecord' = originalRecord]_vars

\* add() has acted on a session with a selected record
C12_AddActedOnRecord ==
  /\ last.op = "add"
  /\ updateMode = "A"
  /\ activeRecord = [id |-> NullVal]
  /\ originalRecord \in {AdapterRecord(i) : i \in Ids}

\* C13: commit('unlock') on a session with locked = FALSE throws
\* NotUnlockedError and leaves locked FALSE; on a session with locked = TRUE
\* it returns normally and sets locked to FALSE.
C13_UnlockContract ==
  unlock(St) = IF locked THEN Ok([St EXCEPT !.locked = FALSE])
               ELSE Throw(St, "NotUnlockedError")

\* C14: while locked is TRUE, init, reposition, repositionById, edit, add,
\* copy, save, cancel and update(field, value) each throw LockedError with
\* the state as it was; no step taken while locked is the invocation of a
\* command (every step is the completion of an adapter call made earlier),
\* and none makes a new call of init or repositionById or a new adapter
\* call of save.
C14_LockedRejects ==
  /\ [](locked =>
          /\ initGuard(St) = "LockedError"
          /\ repositionByIdGuard(St) = "LockedError"
          /\ \A pos \in -1..MaxId : repositionGuard(St, pos) = "LockedError"
          /\ editR(St) = Throw(St, "LockedError")
          /\ addR(St) = Throw(St, "LockedError")
          /\ copyR(St) = Throw(St, "LockedError")
          /\ cancelR(St) = Throw(St, "LockedError")
          /\ saveGuard(St) = "LockedError"
          /\ \A f \in FieldNames, v \in Values :
               update(St, f, v) = Throw(St, "LockedError"))
  /\ [][locked => /\ last'.got # "none"
                  /\ issued' = issued
                  /\ saves' \subseteq saves]_vars

\* a save holds the lock while a record is selected and records are loaded
C14_LockedWhileSaving ==
  /\ locked
  /\ saves # {}
  /\ Len(records) > 0
  /\ cancelR(St).err = "LockedError"

\* C15: with locked FALSE, edit, add, copy, reposition and repositionById in
\* a mode other than Browse, and save, cancel and update(field, value) in
\* Browse mode, each throw WrongModeError with the state as it was; no step
\* is the invocation of one of them in that mode.
C15_WrongModeRejects ==
  /\ []((~locked /\ updateMode # "B") =>
          /\ editR(St) = Throw(St, "WrongModeError")
          /\ addR(St) = Throw(St, "WrongModeError")
          /\ copyR(St) = Throw(St, "WrongModeError")
          /\ repositionByIdGuard(St) = "WrongModeError"
          /\ \A pos \in -1..MaxId : repositionGuard(St, pos) = "WrongModeError")
  /\ []((~locked /\ updateMode = "B") =>
          /\ saveGuard(St) = "WrongModeError"
          /\ cancelR(St) = Throw(St, "WrongModeError")
          /\ \A f \in FieldNames, v \in Values :
               update(St, f, v) = Throw(St, "WrongModeError"))
  /\ [][/\ (~locked /\ updateMode # "B" /\ last'.got = "none")
            => last'.op \notin {"edit", "add", "copy", "reposition",
                                "repositionById", "prev", "next"}
        /\ (~locked /\ updateMode = "B" /\ last'.got = "none")
            => last'.op \notin {"save", "cancel", "update"}]_vars

\* an unlocked session in Update mode with a record selected and records
\* loaded: edit and reposition(0) are rejected there
C15_UpdateModeUnlocked ==
  /\ ~locked
  /\ updateMode = "U"
  /\ activeRecord # NULL
  /\ Len(records) > 0
  /\ editR(St).err = "WrongModeError"
  /\ repositionGuard(St, 0) = "WrongModeError"

\* C16: update(field, value) in Update, Add or Copy mode, unlocked, with an
\* activeRecord that has no field of that name throws UnknownFieldError and
\* leaves the state as it was.
C16_UnknownFieldRejected ==
  \A f \in FieldNames, v \in Values :
    (~locked /\ updateMode # "B" /\ activeRecord # NULL
       /\ f \notin DOMAIN activeRecord)
      => update(St, f, v) = Throw(St, "UnknownFieldError")

\* an unlocked session in Copy mode whose activeRecord has the field id and
\* not the field name
C16_CopyWithoutField ==
  /\ ~locked
  /\ updateMode = "C"
  /\ activeRecord # NULL
  /\ "id" \in DOMAIN activeRecord
  /\ "name" \notin DOMAIN activeRecord
  /\ update(St, "name", 1).err = "UnknownFieldError"

\* C17: a step that changes originalRecord is the completion of init or of
\* repositionById, the completion of the adapter call of save, or cancel, and
\* leaves originalRecord a copy of the activeRecord it commits; a step of
\* update(field, value) assigns value to one field of activeRecord and
\* changes nothing else; edit, add and copy leave originalRecord as it was.
C17_OriginalReplacedOnlyOnLoad ==
  [][/\ originalRecord' # originalRecord
          => /\ last'.op \in {"init", "repositionById", "save", "cancel"}
             /\ last'.op # "cancel" => last'.got = "resolved"
             /\ originalRecord' = Spread(activeRecord')
     /\ last'.op = "update"
          => /\ \E f \in DOMAIN activeRecord, v \in Values :
                  activeRecord' = [activeRecord EXCEPT ![f] = v]
             /\ UNCHANGED <<originalRecord, records, updateMode, pointer, locked>>
             /\ UNCHANGED <<ctls, pending>>
     /\ last'.op \in {"edit", "add", "copy"}
          => originalRecord' = originalRecord]_vars

\* update has acted in Update mode: activeRecord.id differs from the id of
\* the record that was loaded, which originalRecord still has
C17_UpdatedInPlace ==
  /\ last.op = "update"
  /\ updateMode = "U"
  /\ IdOf(originalRecord) \in Ids
  /\ IdOf(activeRecord) \in Ids
  /\ IdOf(activeRecord) # IdOf(originalRecord)

\* C18: a call of init made unlocked, in Browse mode, that settles with no
\* other call outstanding and none of its controllers aborted leaves
\* updateMode Browse
\* and records the batch getFirst returned; with a record selected,
\* activeRecord is the adapter's record for the first id of the batch and
\* pointer is 0; with none (empty batch, or getRecord resolved to no record),
\* pointer is -1.
C18_InitLoadsFirstRecord ==
  [][\A c \in inits :
       (/\ InitSettles(c)
        /\ ~c.forSave
        /\ inits = {c} /\ repos = {} /\ saves = {}
        /\ ~locked
        /\ updateMode = "B"
        /\ last.op = "init"
        /\ c.batch \notin aborted /\ c.fetch \notin aborted
        /\ last'.got = "resolved")
         => /\ updateMode' = "B"
            /\ records' = c.records
            /\ IF activeRecord' # NULL
               THEN /\ records' # <<>>
                    /\ activeRecord' = AdapterRecord(records'[1].id)
                    /\ pointer' = 0
               ELSE pointer' = -1]_vars

\* C19: at most one adapter.getFirst call is outstanding with a controller
\* that is not aborted, and at most one adapter.getRecord call (of init or of
\* repositionById) is outstanding with a controller that is not aborted.
C19_OneFetchPerKind ==
  /\ Cardinality({c.batch : c \in {d \in inits : d.pc = "getFirst"}} \ aborted) <= 1
  /\ Cardinality(({c.fetch : c \in {d \in inits : d.pc = "getRecord"}}
                    \cup {c.fetch : c \in repos}) \ aborted) <= 1

\* C20: a step taken in Update, Add or Copy mode that changes activeRecord,
\* originalRecord or updateMode is a step of update(field, value), save or
\* cancel; the completion of an init or repositionById changes none of them.
C20_FetchKeepsEditedRecord ==
  [][updateMode # "B"
       => \/ UNCHANGED <<activeRecord, originalRecord, updateMode>>
          \/ last'.op \in {"update", "save", "cancel"}]_vars

\* C21: updateMode is Browse initially, and every step that changes it
\* takes it from Browse to Update, Add or Copy, or from one of these to
\* Browse; never from one of Update, Add, Copy to another.
C21_ModeTransitions ==
  /\ updateMode = "B"
  /\ [][updateMode' # updateMode
          => \/ updateMode = "B" /\ updateMode' \in {"U", "A", "C"}
             \/ updateMode \in {"U", "A", "C"} /\ updateMode' = "B"]_vars

\* cancel has taken a session with records loaded and a record selected from
\* Update, Add or Copy mode back to Browse
C21_BackInBrowse ==
  /\ last.op = "cancel"
  /\ last.out = "ok"
  /\ updateMode = "B"
  /\ activeRecord # NULL
  /\ Len(records) > 0

\* the step dispatches reposition(pos) and it passes its guards: the state
\* fields stay, one call of repositionById for the id at pos is outstanding
\* more, with the controller the closure now holds, and the controller the
\* closure held is aborted
RepositionsTo(pos) ==
  /\ repositionGuard(St, pos) = "none"
  /\ UNCHANGED <<store, batchAbortController, inits, saves>>
  /\ fetchAbortController' \notin {fetchAbortController, NoCtl}
  /\ repos' = repos \cup {[fetch |-> fetchAbortController',
                            id |-> records[pos + 1].id]}
  /\ fetchAbortController' \notin aborted'
  /\ fetchAbortController \in (LiveCtls' \ {NoCtl})
       => fetchAbortController \in aborted'
  /\ last'.out = "pending"

\* C22: prev() with pointer <= 0 and next() with pointer >= records.length
\* - 1 reposition to nothing, and no step is theirs (no adapter call, no
\* state change); otherwise they reposition to pointer - 1 and pointer + 1,
\* and a step of theirs is what a step of reposition to that position is.
C22_PrevNextDelegate ==
  /\ [](/\ prevTargets(St) = (IF pointer <= 0 THEN {} ELSE {pointer - 1})
        /\ nextTargets(St) =
             (IF pointer >= Len(records) - 1 THEN {} ELSE {pointer + 1}))
  /\ [][/\ last'.op = "prev" => (pointer > 0 /\ RepositionsTo(pointer - 1))
        /\ last'.op = "next"
             => (pointer < Len(records) - 1 /\ RepositionsTo(pointer + 1))
        /\ last'.op = "reposition"
             => \E pos \in 0..(Len(records) - 1) : RepositionsTo(pos)]_vars

\* prev() has acted at pointer 1, the last position of two records, where
\* next() does nothing
C22_PrevActedAtEnd ==
  /\ last.op = "prev"
  /\ pointer = 1
  /\ Len(records) = 2
  /\ nextTargets(St) = {}
  /\ \E c \in repos : c.id = records[1].id /\ c.fetch = fetchAbortController

====
